---------------------------- MODULE Spec2Model ----------------------------
(***************************************************************************)
(* State-machine model of the statWrappers package:                        *)
(*   wrappers/ttest.py  classes ttest_1samp and ttest_2samp                *)
(*   wrappers/ols.py    class ols                                          *)
(*                                                                         *)
(* Python values are records [ty, s, n]: ty is the name of the value's     *)
(* type, s its text (for a str, and "nan" for a float NaN) and n its       *)
(* number.  Numbers are fixed-point: the number 1.0 is One units, and a    *)
(* two-sided p-value returned by scipy is an even number of units, so      *)
(* that the division by 2.0 of the wrappers is exact.                      *)
(***************************************************************************)
EXTENDS Integers, Sequences, FiniteSets, TLC

VARIABLES
    tt,       \* the ttest_1samp / ttest_2samp instance (its attributes)
    t_pc,     \* "idle", "init" (inside __init__), "done", "raised"
    t_todo,   \* the method calls __init__ still has to make
    t_err,    \* the exception that ended the construction
    t_out,    \* what the last summary() / to_file() reported
    t_built,  \* the results __init__ stored, and the test() calls made since
    fixture,  \* the samples and options a test loop holds fixed
    prev,     \* results of the previous completed construction of the loop
    reg,      \* the ols instance (its attributes)
    o_pc,     \* "idle", "init", "done", "raised"
    o_err,    \* the exception that ended the ols construction
    o_raises, \* how many times estimate() raised during this construction
    o_args,   \* the arguments of the ols construction
    o_out,    \* the outcome of the last method call on the ols instance
    o_seen    \* what each diagnostic method returned at its first call

vars ==
    <<tt, t_pc, t_todo, t_err, t_out, t_built, fixture, prev,
      reg, o_pc, o_err, o_raises, o_args, o_out, o_seen>>
tvars == <<tt, t_pc, t_todo, t_err, t_out, t_built, fixture, prev>>
ovars == <<reg, o_pc, o_err, o_raises, o_args, o_out, o_seen>>

---------------------------------------------------------------------------
(* Bounds of the model *)

\* p-values and alpha take the values i / (2 * PRes)
PRes == 2
\* the t-statistics scipy returns range over -MaxT .. MaxT (and NaN)
MaxT == 1

\* a caller calls test() again on a constructed instance up to MaxCalls times
MaxCalls == 2

\* the predictor matrix of an ols has at most MaxCols columns
MaxCols == 2

One == 2 * PRes
\* one observation more than a full design has coefficients, so that the
\* error degrees of freedom are negative, zero and positive
MaxObs == MaxCols + 2
\* the observations are drawn from these values
ObsVals == {0, 1}

---------------------------------------------------------------------------
(* Python values *)

PyVal(ty, s, n) == [ty |-> ty, s |-> s, n |-> n]
PyNone == PyVal("NoneType", "", 0)
PyInt(i) == PyVal("int", "", i * One)
PyFloat(u) == PyVal("float", "", u)
PyNaN == PyVal("float", "nan", 0)
NpFloat64(u) == PyVal("numpy.float64", "", u)
PyStr(s) == PyVal("str", s, 0)
\* an attribute that has not been assigned
Unset == PyVal("<unset>", "", 0)

NumericTypes == {"int", "float", "numpy.float64"}

IsNaN(v) == v.ty \in NumericTypes /\ v.s = "nan"

\* bool(v): None, zero and the empty string are false; NaN is true
Truthy(v) ==
    CASE v.ty = "NoneType" -> FALSE
      [] v.ty = "str" -> v.s # ""
      [] v.ty \in NumericTypes -> IsNaN(v) \/ v.n # 0
      [] OTHER -> TRUE

\* comparisons of numbers: every comparison with NaN is false
PyLt(a, b) == ~IsNaN(a) /\ ~IsNaN(b) /\ a.n < b.n
PyGt(a, b) == ~IsNaN(a) /\ ~IsNaN(b) /\ a.n > b.n
PyGe(a, b) == ~IsNaN(a) /\ ~IsNaN(b) /\ a.n >= b.n
PyEqNum(a, b) == ~IsNaN(a) /\ ~IsNaN(b) /\ a.n = b.n

Zero == PyInt(0)

\* x / 2.0 on a float: NaN stays NaN
Halve(v) == IF IsNaN(v) THEN v ELSE PyFloat(v.n \div 2)

\* exceptions
Err(type, msg) == [type |-> type, msg |-> msg]
NoErr == Err("", "")

\* "text" + v + "'" : str + str concatenates, str + anything else raises
ConcatErr(v, type, msg) ==
    IF v.ty = "str" THEN Err(type, msg)
    ELSE Err("TypeError", "cannot concatenate 'str' and non-str objects")

---------------------------------------------------------------------------
(* scipy.stats: what the t-test functions return on the samples.  The     *)
(* samples are represented by the answers scipy gives on them.            *)

LibResult(t, p) == [t |-> t, p |-> p, raises |-> FALSE]
\* zero-variance samples: scipy returns (nan, nan)
NaNResult == LibResult(PyNaN, PyNaN)
\* ttest_rel on samples of unequal length raises ValueError
LenMismatch == [t |-> Unset, p |-> Unset, raises |-> TRUE]
\* a call the class never makes on these samples
NotCalled == [t |-> Unset, p |-> Unset, raises |-> FALSE]

\* t = 0 has the two-sided p-value 1.0; otherwise p < 1.0, and p underflows
\* to 0.0 for an extreme t
LibResults ==
    {LibResult(PyFloat(0), PyFloat(One)), NaNResult}
    \cup {LibResult(PyFloat(k), PyFloat(2 * i)) :
             k \in (-MaxT .. MaxT) \ {0}, i \in 0 .. (PRes - 1)}

\* (a, popmean) of a ttest_1samp
Samples1 ==
    {[one |-> r, ind |-> NotCalled, welch |-> NotCalled, rel |-> NotCalled] :
        r \in LibResults}

\* (a, b) of a ttest_2samp: the pooled and the Welch test share the
\* t-statistic and may differ in the p-value
Samples2 ==
    {d \in {[one |-> NotCalled, ind |-> r, welch |-> w, rel |-> q] :
               r \in LibResults,
               w \in LibResults,
               q \in LibResults \cup {LenMismatch}} :
        d.welch.t = d.ind.t}

NoSamples == [one |-> NotCalled, ind |-> NotCalled, welch |-> NotCalled, rel |-> NotCalled]

stats_ttest_1samp(samples) == samples.one
stats_ttest_ind(samples, equal_var) == IF equal_var THEN samples.ind ELSE samples.welch
stats_ttest_rel(samples) == samples.rel

---------------------------------------------------------------------------
(* wrappers/ttest.py: class ttest_1samp *)

\* the attributes of a ttest instance; a ttest_1samp has no test_type and
\* no equal_var
TObject(cls, samples, test_type, equal_var, alt_hyp, alpha) ==
    [cls |-> cls, samples |-> samples, test_type |-> test_type,
     equal_var |-> equal_var, alt_hyp |-> alt_hyp, alpha |-> alpha,
     t_stat |-> Unset, p_val |-> Unset]

NoObject == TObject("", NoSamples, Unset, FALSE, Unset, Unset)

\* self.alt_hyp not in ('less', 'unequal', 'greater')
ttest_1samp_alt_hyp_invalid(self) ==
    ~(self.alt_hyp.ty = "str" /\ self.alt_hyp.s \in {"less", "unequal", "greater"})

\* the exception check_params raises, NoErr when it returns
ttest_1samp_check_params(self) ==
    IF ttest_1samp_alt_hyp_invalid(self)
    THEN ConcatErr(self.alt_hyp, "ValueError", "Invalid alternative hypothesis.")
    ELSE IF Truthy(self.alpha)
    THEN IF self.alpha.ty \notin {"int", "float"}
         THEN Err("ValueError", "Invalid alpha data type.")
         ELSE IF PyLt(self.alpha, Zero) \/ PyGt(self.alpha, PyInt(1))
         THEN Err("ValueError", "Invalid alpha data value.")
         ELSE NoErr
    ELSE NoErr

\* ttest_1samp_test, halving only when the sign of t supports alt_hyp
ttest_1samp_test_signed(self, r) ==
    [self EXCEPT !.t_stat = r.t,
                 !.p_val = IF \/ (self.alt_hyp = PyStr("less") /\ PyLt(r.t, Zero))
                              \/ (self.alt_hyp = PyStr("greater") /\ PyGt(r.t, Zero))
                           THEN Halve(r.p) ELSE r.p]

\* the attributes after test(); the scipy call has returned r
ttest_1samp_test(self, r) ==
    [self EXCEPT !.t_stat = r.t,
                 !.p_val = IF self.alt_hyp # PyStr("unequal") THEN Halve(r.p) ELSE r.p]

\* the decision of summary() and to_file()
Decision(reject_null, accept_alt) ==
    [reject_null |-> reject_null, accept_alt |-> accept_alt]

ttest_1samp_summary_decision(self) ==
    IF (Truthy(self.alpha) /\ PyGe(self.p_val, self.alpha))
       \/ PyEqNum(self.p_val, Zero) \/ ~Truthy(self.alpha)
    THEN Decision(FALSE, FALSE)
    ELSE Decision(TRUE,
                  \/ self.alt_hyp = PyStr("unequal")
                  \/ (self.alt_hyp = PyStr("less") /\ PyLt(self.t_stat, Zero))
                  \/ (self.alt_hyp = PyStr("greater") /\ PyGt(self.t_stat, Zero)))

\* ttest_1samp_to_file_decision without the check of the sign of t
ttest_1samp_to_file_decision_unsigned(self) ==
    IF (Truthy(self.alpha) /\ PyGe(self.p_val, self.alpha))
       \/ PyEqNum(self.p_val, Zero) \/ ~Truthy(self.alpha)
    THEN Decision(FALSE, FALSE)
    ELSE Decision(TRUE, TRUE)

ttest_1samp_to_file_decision(self) ==
    IF (Truthy(self.alpha) /\ PyGe(self.p_val, self.alpha))
       \/ PyEqNum(self.p_val, Zero) \/ ~Truthy(self.alpha)
    THEN Decision(FALSE, FALSE)
    ELSE Decision(TRUE,
                  \/ self.alt_hyp = PyStr("unequal")
                  \/ (self.alt_hyp = PyStr("less") /\ PyLt(self.t_stat, Zero))
                  \/ (self.alt_hyp = PyStr("greater") /\ PyGt(self.t_stat, Zero)))

\* what summary() prints and to_file() saves
Report(kind, assumptions, decision) ==
    [kind |-> kind, assumptions |-> assumptions,
     reject_null |-> decision.reject_null, accept_alt |-> decision.accept_alt]

NoReport == Report("", <<>>, Decision(FALSE, FALSE))

\* t_stat and p_val as test() left them when __init__ called it, and how
\* many times test() was called on the constructed instance afterwards
Built(t_stat, p_val, calls) == [t_stat |-> t_stat, p_val |-> p_val, calls |-> calls]

NoBuilt == Built(Unset, Unset, 0)

ttest_1samp_summary(self) ==
    Report("summary", <<"Independent Observations">>, ttest_1samp_summary_decision(self))

ttest_1samp_to_file(self) ==
    Report("to_file", <<"Independent Observations">>, ttest_1samp_to_file_decision(self))

\* ttest_1samp_init_calls with test() called before check_params()
ttest_1samp_init_calls_swapped == <<"test", "check_params">>

\* the calls __init__ makes after storing its arguments
ttest_1samp_init_calls == <<"check_params", "test">>

---------------------------------------------------------------------------
(* wrappers/ttest.py: class ttest_2samp *)

\* self.test_type not in ('ind', 'rel')
ttest_2samp_test_type_invalid(self) ==
    ~(self.test_type.ty = "str" /\ self.test_type.s \in {"ind", "rel"})

\* self.alt_hyp not in ('less', 'unequal', 'greater')
ttest_2samp_alt_hyp_invalid(self) ==
    ~(self.alt_hyp.ty = "str" /\ self.alt_hyp.s \in {"less", "unequal", "greater"})

\* the exception check_params raises, NoErr when it returns
ttest_2samp_check_params(self) ==
    IF ttest_2samp_test_type_invalid(self)
    THEN ConcatErr(self.test_type, "ValueError", "Invalid t-test type.")
    ELSE IF ttest_2samp_alt_hyp_invalid(self)
    THEN ConcatErr(self.alt_hyp, "ValueError", "Invalid alternative hypothesis.")
    ELSE IF Truthy(self.alpha)
    THEN IF self.alpha.ty \notin {"int", "float"}
         THEN Err("ValueError", "Invalid alpha data type.")
         ELSE IF PyLt(self.alpha, Zero) \/ PyGt(self.alpha, PyInt(1))
         THEN Err("ValueError", "Invalid alpha data value.")
         ELSE NoErr
    ELSE NoErr

\* ttest_2samp_call without equal_var: stats.ttest_ind(self.a, self.b)
ttest_2samp_call_pooled(self) ==
    IF self.test_type = PyStr("ind")
    THEN stats_ttest_ind(self.samples, TRUE)
    ELSE stats_ttest_rel(self.samples)

\* the scipy call test() makes
ttest_2samp_call(self) ==
    IF self.test_type = PyStr("ind")
    THEN stats_ttest_ind(self.samples, self.equal_var)
    ELSE stats_ttest_rel(self.samples)

\* ttest_2samp_test, halving for a directional alt_hyp only when alpha is given
ttest_2samp_test_alpha(self, r) ==
    [self EXCEPT !.t_stat = r.t,
                 !.p_val = IF self.alt_hyp # PyStr("unequal") /\ Truthy(self.alpha)
                           THEN Halve(r.p) ELSE r.p]

\* ttest_2samp_test halving the p-value the instance already holds
ttest_2samp_test_compounding(self, r) ==
    [self EXCEPT !.t_stat = r.t,
                 !.p_val = IF self.alt_hyp # PyStr("unequal")
                           THEN Halve(IF self.p_val = Unset THEN r.p ELSE self.p_val)
                           ELSE r.p]

\* the attributes after test(); the scipy call has returned r
ttest_2samp_test(self, r) ==
    [self EXCEPT !.t_stat = r.t,
                 !.p_val = IF self.alt_hyp # PyStr("unequal") THEN Halve(r.p) ELSE r.p]

ttest_2samp_summary_decision(self) ==
    IF (Truthy(self.alpha) /\ PyGe(self.p_val, self.alpha))
       \/ PyEqNum(self.p_val, Zero) \/ ~Truthy(self.alpha)
    THEN Decision(FALSE, FALSE)
    ELSE Decision(TRUE,
                  \/ self.alt_hyp = PyStr("unequal")
                  \/ (self.alt_hyp = PyStr("less") /\ PyLt(self.t_stat, Zero))
                  \/ (self.alt_hyp = PyStr("greater") /\ PyGt(self.t_stat, Zero)))

\* ttest_2samp_to_file_decision keeping the null hypothesis only for
\* p_val > alpha
ttest_2samp_to_file_decision_strict(self) ==
    IF (Truthy(self.alpha) /\ PyGt(self.p_val, self.alpha))
       \/ PyEqNum(self.p_val, Zero) \/ ~Truthy(self.alpha)
    THEN Decision(FALSE, FALSE)
    ELSE Decision(TRUE,
                  \/ self.alt_hyp = PyStr("unequal")
                  \/ (self.alt_hyp = PyStr("less") /\ PyLt(self.t_stat, Zero))
                  \/ (self.alt_hyp = PyStr("greater") /\ PyGt(self.t_stat, Zero)))

ttest_2samp_to_file_decision(self) ==
    IF (Truthy(self.alpha) /\ PyGe(self.p_val, self.alpha))
       \/ PyEqNum(self.p_val, Zero) \/ ~Truthy(self.alpha)
    THEN Decision(FALSE, FALSE)
    ELSE Decision(TRUE,
                  \/ self.alt_hyp = PyStr("unequal")
                  \/ (self.alt_hyp = PyStr("less") /\ PyLt(self.t_stat, Zero))
                  \/ (self.alt_hyp = PyStr("greater") /\ PyGt(self.t_stat, Zero)))

\* both branches of the conditional expression append 'Equal Variances'
ttest_2samp_summary_assumptions(self) ==
    IF self.test_type = PyStr("ind")
    THEN IF self.equal_var
         THEN <<"Independent Samples", "Equal Variances">>
         ELSE <<"Independent Samples", "Equal Variances">>
    ELSE <<"Related Samples">>

ttest_2samp_to_file_assumptions(self) ==
    IF self.test_type = PyStr("ind")
    THEN IF self.equal_var
         THEN <<"Independent Samples", "Equal Variances">>
         ELSE <<"Independent Samples", "Equal Variances">>
    ELSE <<"Related Samples">>

ttest_2samp_summary(self) ==
    Report("summary", ttest_2samp_summary_assumptions(self),
           ttest_2samp_summary_decision(self))

ttest_2samp_to_file(self) ==
    Report("to_file", ttest_2samp_to_file_assumptions(self),
           ttest_2samp_to_file_decision(self))

\* the calls __init__ makes after storing its arguments
ttest_2samp_init_calls == <<"check_params", "test">>

---------------------------------------------------------------------------
(* The arguments a caller may pass *)

AltHyps ==
    {PyStr("unequal"), PyStr("greater"), PyStr("less"),
     PyStr("bad_alt_hyp"), PyNone}

TestTypes == {PyStr("ind"), PyStr("rel"), PyStr("bad_test_type"), PyNone}

\* None, ints, floats inside and outside [0, 1], NaN, a numpy float,
\* a string and the empty string
Alphas ==
    {PyNone, PyInt(-1), PyInt(0), PyInt(1), PyInt(2), PyNaN,
     NpFloat64(PRes), PyStr("bad_alpha"), PyStr("")}
    \cup {PyFloat(u) : u \in {-1, One + 1} \cup (1 .. (One - 1))}

---------------------------------------------------------------------------
(* Actions of the t-tests *)

\* ttest_1samp(a, popmean, alt_hyp, alpha): __init__ stores its arguments
T1_init(samples, alt_hyp, alpha) ==
    /\ t_pc = "idle"
    /\ tt' = TObject("ttest_1samp", samples, Unset, FALSE, alt_hyp, alpha)
    /\ t_todo' = ttest_1samp_init_calls
    /\ t_pc' = "init"
    /\ t_err' = NoErr
    /\ t_out' = NoReport
    /\ t_built' = NoBuilt
    /\ UNCHANGED <<fixture, prev, ovars>>

\* ttest_2samp(a, b, test_type, equal_var, alt_hyp, alpha)
T2_init(samples, test_type, equal_var, alt_hyp, alpha) ==
    /\ t_pc = "idle"
    /\ tt' = TObject("ttest_2samp", samples, test_type, equal_var, alt_hyp, alpha)
    /\ t_todo' = ttest_2samp_init_calls
    /\ t_pc' = "init"
    /\ t_err' = NoErr
    /\ t_out' = NoReport
    /\ t_built' = NoBuilt
    /\ UNCHANGED <<fixture, prev, ovars>>

\* the state of __init__ after one of its calls returned
Returned ==
    /\ t_todo' = Tail(t_todo)
    /\ t_pc' = IF Tail(t_todo) = <<>> THEN "done" ELSE "init"
    /\ t_err' = NoErr

\* the exception e leaves __init__
Raised(e) ==
    /\ t_todo' = <<>>
    /\ t_pc' = "raised"
    /\ t_err' = e

T1_check_params ==
    /\ t_pc = "init" /\ tt.cls = "ttest_1samp"
    /\ Head(t_todo) = "check_params"
    /\ IF ttest_1samp_check_params(tt) # NoErr
       THEN Raised(ttest_1samp_check_params(tt))
       ELSE Returned
    /\ UNCHANGED <<tt, t_out, t_built, fixture, prev, ovars>>

T1_test ==
    /\ t_pc = "init" /\ tt.cls = "ttest_1samp"
    /\ Head(t_todo) = "test"
    /\ LET r == stats_ttest_1samp(tt.samples)
       IN  IF r.raises
           THEN Raised(Err("ValueError", "scipy")) /\ tt' = tt /\ t_built' = NoBuilt
           ELSE /\ Returned
                /\ tt' = ttest_1samp_test(tt, r)
                /\ t_built' = Built(tt'.t_stat, tt'.p_val, 0)
    /\ UNCHANGED <<t_out, fixture, prev, ovars>>

T2_check_params ==
    /\ t_pc = "init" /\ tt.cls = "ttest_2samp"
    /\ Head(t_todo) = "check_params"
    /\ IF ttest_2samp_check_params(tt) # NoErr
       THEN Raised(ttest_2samp_check_params(tt))
       ELSE Returned
    /\ UNCHANGED <<tt, t_out, t_built, fixture, prev, ovars>>

T2_test ==
    /\ t_pc = "init" /\ tt.cls = "ttest_2samp"
    /\ Head(t_todo) = "test"
    /\ LET r == ttest_2samp_call(tt)
       IN  IF r.raises
           THEN /\ Raised(Err("ValueError", "unequal length arrays"))
                /\ tt' = tt
                /\ t_built' = NoBuilt
           ELSE /\ Returned
                /\ tt' = ttest_2samp_test(tt, r)
                /\ t_built' = Built(tt'.t_stat, tt'.p_val, 0)
    /\ UNCHANGED <<t_out, fixture, prev, ovars>>

T1_summary ==
    /\ t_pc = "done" /\ tt.cls = "ttest_1samp"
    /\ t_out' = ttest_1samp_summary(tt)
    /\ UNCHANGED <<tt, t_pc, t_todo, t_err, t_built, fixture, prev, ovars>>

T1_to_file ==
    /\ t_pc = "done" /\ tt.cls = "ttest_1samp"
    /\ t_out' = ttest_1samp_to_file(tt)
    /\ UNCHANGED <<tt, t_pc, t_todo, t_err, t_built, fixture, prev, ovars>>

T2_summary ==
    /\ t_pc = "done" /\ tt.cls = "ttest_2samp"
    /\ t_out' = ttest_2samp_summary(tt)
    /\ UNCHANGED <<tt, t_pc, t_todo, t_err, t_built, fixture, prev, ovars>>

T2_to_file ==
    /\ t_pc = "done" /\ tt.cls = "ttest_2samp"
    /\ t_out' = ttest_2samp_to_file(tt)
    /\ UNCHANGED <<tt, t_pc, t_todo, t_err, t_built, fixture, prev, ovars>>

\* the owner of a constructed ttest_1samp calls test() again
T1_test_again ==
    /\ t_pc = "done" /\ tt.cls = "ttest_1samp"
    /\ t_built.calls < MaxCalls
    /\ tt' = ttest_1samp_test(tt, stats_ttest_1samp(tt.samples))
    /\ t_built' = [t_built EXCEPT !.calls = @ + 1]
    /\ UNCHANGED <<t_pc, t_todo, t_err, t_out, fixture, prev, ovars>>

\* the owner of a constructed ttest_2samp calls test() again
T2_test_again ==
    /\ t_pc = "done" /\ tt.cls = "ttest_2samp"
    /\ t_built.calls < MaxCalls
    /\ tt' = ttest_2samp_test(tt, ttest_2samp_call(tt))
    /\ t_built' = [t_built EXCEPT !.calls = @ + 1]
    /\ UNCHANGED <<t_pc, t_todo, t_err, t_out, fixture, prev, ovars>>

\* the caller drops the instance (or the exception) and may construct again
T_discard ==
    /\ t_pc \in {"done", "raised"}
    /\ tt' = NoObject
    /\ t_pc' = "idle"
    /\ t_todo' = <<>>
    /\ t_err' = NoErr
    /\ t_out' = NoReport
    /\ t_built' = NoBuilt
    /\ UNCHANGED <<fixture, prev, ovars>>

---------------------------------------------------------------------------
(* wrappers/ols.py: class ols *)

RECURSIVE Sum(_, _)
\* sum of f[i] for i in 1 .. n
Sum(f, n) == IF n = 0 THEN 0 ELSE f[n] + Sum(f, n - 1)

RECURSIVE Vec(_, _)
\* the array of the n computed elements f[1], ..., f[n]
Vec(f, n) == IF n = 0 THEN <<>> ELSE Append(Vec(f, n - 1), f[n])

NRows(m) == Len(m)
NCols(m) == Len(m[1])

\* numpy dot(a.T, b) for a matrix a and a vector b
DotTV(a, b) ==
    Vec([j \in 1 .. NCols(a) |-> Sum([i \in 1 .. NRows(a) |-> a[i][j] * b[i]], NRows(a))],
        NCols(a))

\* numpy dot(a.T, a): the Gram matrix
Gram(a) ==
    Vec([j \in 1 .. NCols(a) |->
            Vec([l \in 1 .. NCols(a) |->
                    Sum([i \in 1 .. NRows(a) |-> a[i][j] * a[i][l]], NRows(a))],
                NCols(a))],
        NCols(a))

\* m without its first row and its column j
Minor(m, j) ==
    Vec([r \in 1 .. (Len(m) - 1) |->
            Vec([c \in 1 .. (Len(m) - 1) |->
                    IF c < j THEN m[r + 1][c] ELSE m[r + 1][c + 1]],
                Len(m) - 1)],
        Len(m) - 1)

RECURSIVE Det(_)
\* the determinant, by expansion along the first row
Det(m) ==
    IF Len(m) = 1 THEN m[1][1]
    ELSE Sum([j \in 1 .. Len(m) |->
                 (IF j % 2 = 1 THEN 1 ELSE -1) * m[1][j] * Det(Minor(m, j))],
             Len(m))

\* m with its column j replaced by the vector v
ReplaceCol(m, j, v) ==
    Vec([r \in 1 .. Len(m) |->
            Vec([c \in 1 .. Len(m) |-> IF c = j THEN v[r] ELSE m[r][c]], Len(m))],
        Len(m))

---------------------------------------------------------------------------
(* numpy floats of the regression, kept exact: a finite value is the      *)
(* fraction n / d in lowest terms (kind "fin") or the signed square root  *)
(* of one, sign(n) * sqrt(|n| / d) (kind "root"); the values of the       *)
(* distribution functions of scipy.stats are kept as the function applied *)
(* to its arguments (par)                                                  *)

Abs(i) == IF i < 0 THEN -i ELSE i
Sgn(i) == IF i < 0 THEN -1 ELSE IF i > 0 THEN 1 ELSE 0

RECURSIVE GCD(_, _)
GCD(a, b) == IF b = 0 THEN a ELSE GCD(b, a % b)

Float(k, n, d, par) == [k |-> k, n |-> n, d |-> d, par |-> par]
FNaN == Float("nan", 0, 1, <<>>)
\* +inf and -inf
FInf(s) == Float("inf", s, 1, <<>>)
\* the float n / d: n / 0 is +-inf and 0 / 0 is nan
Fin(n, d) ==
    LET g == GCD(Abs(n), Abs(d))
    IN  IF d = 0 THEN (IF n = 0 THEN FNaN ELSE FInf(Sgn(n)))
        ELSE Float("fin", Sgn(d) * (n \div g), Abs(d) \div g, <<>>)
\* sign(n) * sqrt(|n| / d) for d # 0
Root(n, d) ==
    LET g == GCD(Abs(n), Abs(d))
    IN  Float("root", Sgn(d) * (n \div g), Abs(d) \div g, <<>>)
FInt(i) == Fin(i, 1)

FIsNaN(a) == a.k = "nan"
FIsInf(a) == a.k = "inf"
FIsZero(a) == a.k \in {"fin", "root"} /\ a.n = 0
FSgn(a) == Sgn(a.n)

\* a / b on floats of kind "fin": x / 0 is +-inf, 0 / 0 is nan, and a
\* warning, never an exception
FDiv(a, b) ==
    IF FIsNaN(a) \/ FIsNaN(b) THEN FNaN
    ELSE IF FIsInf(a) THEN (IF FIsInf(b) THEN FNaN
                            ELSE FInf(a.n * (IF b.n < 0 THEN -1 ELSE 1)))
    ELSE IF FIsInf(b) THEN FInt(0)
    ELSE IF b.n = 0 THEN (IF a.n = 0 THEN FNaN ELSE FInf(Sgn(a.n)))
    ELSE Fin(a.n * b.d, a.d * b.n)

\* a * b on floats of kind "fin"
FMul(a, b) ==
    IF FIsNaN(a) \/ FIsNaN(b) THEN FNaN
    ELSE IF FIsInf(a) \/ FIsInf(b)
    THEN (IF FIsZero(a) \/ FIsZero(b) THEN FNaN ELSE FInf(FSgn(a) * FSgn(b)))
    ELSE Fin(a.n * b.n, a.d * b.d)

\* a - b on floats of kind "fin"
FSub(a, b) ==
    IF FIsNaN(a) \/ FIsNaN(b) THEN FNaN
    ELSE IF FIsInf(a) THEN (IF FIsInf(b) /\ a.n = b.n THEN FNaN ELSE a)
    ELSE IF FIsInf(b) THEN FInf(-b.n)
    ELSE Fin(a.n * b.d - b.n * a.d, a.d * b.d)

\* numpy sqrt(a): nan for a negative a
FSqrt(a) ==
    IF FIsNaN(a) THEN FNaN
    ELSE IF FIsInf(a) THEN (IF a.n > 0 THEN a ELSE FNaN)
    ELSE IF a.n < 0 THEN FNaN
    ELSE Root(a.n, a.d)

\* a / r for a of kind "fin" and r a square root
FDivRoot(a, r) ==
    IF FIsNaN(a) \/ FIsNaN(r) THEN FNaN
    ELSE IF FIsInf(a) THEN (IF FIsInf(r) THEN FNaN ELSE a)
    ELSE IF FIsInf(r) THEN FInt(0)
    ELSE IF r.n = 0 THEN (IF a.n = 0 THEN FNaN ELSE FInf(Sgn(a.n)))
    ELSE Root(Sgn(a.n) * a.n * a.n * r.d, a.d * a.d * r.n)

\* abs(a)
FAbs(a) == IF FIsNaN(a) THEN a ELSE [a EXCEPT !.n = Abs(a.n)]

\* (1 - stats.t.cdf(t, df)) * 2 for t >= 0
stats_t_sf2(t, df) ==
    IF FIsNaN(t) \/ df <= 0 THEN FNaN
    ELSE IF FIsInf(t) THEN FInt(0)
    ELSE IF t.n = 0 THEN FInt(1)
    ELSE Float("t.sf2", t.n, t.d, <<df>>)

\* 1 - stats.f.cdf(f, dfn, dfd)
stats_f_sf(f, dfn, dfd) ==
    IF FIsNaN(f) \/ dfn <= 0 \/ dfd <= 0 THEN FNaN
    ELSE IF FIsInf(f) THEN FInt(IF f.n > 0 THEN 0 ELSE 1)
    ELSE IF f.n <= 0 THEN FInt(1)
    ELSE Float("f.sf", f.n, f.d, <<dfn, dfd>>)

\* scipy.linalg.inv(g) raises LinAlgError when g is singular
\* ols_inv_raises for an inverse that never fails
ols_inv_raises_never(g) == FALSE
ols_inv_raises(g) == Det(g) = 0

\* dot(inv(g), xy) as exact fractions: the numerators over the common
\* denominator Det(g)
ols_solve(g, xy) == Vec([j \in 1 .. Len(g) |-> Det(ReplaceCol(g, j, xy))], Len(g))

\* an array argument x: ndim is len(x.shape), rows its rows (a
\* one-dimensional array is the column of its elements)
Array(ndim, rows) == [ndim |-> ndim, rows |-> rows]

\* ols_augment with the column of ones last: c_[x, ones(x.shape[0])]
ols_augment_ones_last(x) == [i \in 1 .. Len(x.rows) |-> x.rows[i] \o <<1>>]

\* c_[ones(x.shape[0]), x]
ols_augment(x) == [i \in 1 .. Len(x.rows) |-> <<1>> \o x.rows[i]]

\* ols_default_names numbering the predictors from 0
ols_default_names_from_zero(x) ==
    IF x.ndim = 1 \/ Len(x.rows[1]) = 1
    THEN <<"const", "x">>
    ELSE <<"const">> \o [i \in 1 .. Len(x.rows[1]) |-> "x" \o ToString(i - 1)]

\* the default names of the predictors
ols_default_names(x) ==
    IF x.ndim = 1 \/ Len(x.rows[1]) = 1
    THEN <<"const", "x">>
    ELSE <<"const">> \o [i \in 1 .. Len(x.rows[1]) |-> "x" \o ToString(i)]

\* a list argument x_varnm: None, or the list of names
NoNames == [given |-> FALSE, names |-> <<>>]
Names(l) == [given |-> TRUE, names |-> l]

\* self.x_varnm: not x_varnm is true of None and of the empty list
ols_x_varnm(x, x_varnm) ==
    IF ~x_varnm.given \/ x_varnm.names = <<>>
    THEN ols_default_names(x)
    ELSE <<"const">> \o x_varnm.names

\* the attributes estimate() assigns, in the order of assignment
EstimateFields ==
    {"inv_xx", "b", "nobs", "ncoef", "df_e", "df_r", "e", "sse", "se", "t", "p",
     "R2", "R2adj", "F", "Fpv"}

\* a float attribute not yet assigned
FUnset == Float("unset", 0, 1, <<>>)

\* the instance when __init__ calls estimate()
ols_init(x, y, x_varnm) ==
    [x |-> ols_augment(x), x_varnm |-> ols_x_varnm(x, x_varnm), y |-> y,
     assigned |-> {}, b |-> <<>>, nobs |-> 0, ncoef |-> 0, df_e |-> 0, df_r |-> 0,
     e |-> <<>>, sse |-> FUnset, se |-> <<>>, t |-> <<>>, p |-> <<>>,
     R2 |-> FUnset, R2adj |-> FUnset, F |-> FUnset, Fpv |-> FUnset]

NoReg ==
    [x |-> <<>>, x_varnm |-> <<>>, y |-> <<>>,
     assigned |-> {}, b |-> <<>>, nobs |-> 0, ncoef |-> 0, df_e |-> 0, df_r |-> 0,
     e |-> <<>>, sse |-> FUnset, se |-> <<>>, t |-> <<>>, p |-> <<>>,
     R2 |-> FUnset, R2adj |-> FUnset, F |-> FUnset, Fpv |-> FUnset]

\* m without its row i and its column i
MinorDiag(m, i) ==
    Vec([r \in 1 .. (Len(m) - 1) |->
            Vec([c \in 1 .. (Len(m) - 1) |->
                    m[IF r < i THEN r ELSE r + 1][IF c < i THEN c ELSE c + 1]],
                Len(m) - 1)],
        Len(m) - 1)

\* diagonal(inv(g)): the cofactors of the diagonal over Det(g)
ols_inv_diagonal(g) ==
    Vec([i \in 1 .. Len(g) |-> Fin(Det(MinorDiag(g, i)), Det(g))], Len(g))

\* v.var() of the array v = nums / den
ArrayVar(nums, den) ==
    LET n == Len(nums)
        s == Sum(nums, n)
        ss == Sum([i \in 1 .. n |-> nums[i] * nums[i]], n)
    IN  Fin(n * ss - s * s, n * n * den * den)

\* self.y - dot(self.x, self.b), as numerators over Det(g)
ols_residuals(x, y, b_num, b_den) ==
    Vec([i \in 1 .. Len(y) |->
            y[i] * b_den - Sum([j \in 1 .. NCols(x) |-> x[i][j] * b_num[j]], NCols(x))],
        Len(y))

\* ols_estimate_counts with df_r = self.ncoef
ols_estimate_counts_df_r(self) ==
    [self EXCEPT !.nobs = Len(self.y),
                 !.ncoef = NCols(self.x),
                 !.df_e = Len(self.y) - NCols(self.x),
                 !.df_r = NCols(self.x)]

\* the instance after lines 142 to 145 of estimate()
ols_estimate_counts(self) ==
    [self EXCEPT !.nobs = Len(self.y),
                 !.ncoef = NCols(self.x),
                 !.df_e = Len(self.y) - NCols(self.x),
                 !.df_r = NCols(self.x) - 1]

\* the instance after lines 127 to 153 of estimate(), the inverse existing
ols_estimate_to_R2(self) ==
    LET g == Gram(self.x)
        b_den == Det(g)
        b_num == ols_solve(g, DotTV(self.x, self.y))
        c == ols_estimate_counts(self)
        nobs == c.nobs
        ncoef == c.ncoef
        df_e == c.df_e
        e_num == ols_residuals(self.x, self.y, b_num, b_den)
        ee == Fin(Sum([i \in 1 .. nobs |-> e_num[i] * e_num[i]], nobs), b_den * b_den)
        sse == FDiv(ee, FInt(df_e))
        inv_d == ols_inv_diagonal(g)
        b == Vec([j \in 1 .. ncoef |-> Fin(b_num[j], b_den)], ncoef)
        se == Vec([j \in 1 .. ncoef |-> FSqrt(FMul(sse, inv_d[j]))], ncoef)
        t == Vec([j \in 1 .. ncoef |-> FDivRoot(b[j], se[j])], ncoef)
    IN  [self EXCEPT !.assigned = EstimateFields \ {"R2adj", "F", "Fpv"},
                     !.b = b,
                     !.nobs = nobs,
                     !.ncoef = ncoef,
                     !.df_e = df_e,
                     !.df_r = c.df_r,
                     !.e = Vec([i \in 1 .. nobs |-> Fin(e_num[i], b_den)], nobs),
                     !.sse = sse,
                     !.se = se,
                     !.t = t,
                     !.p = Vec([j \in 1 .. ncoef |-> stats_t_sf2(FAbs(t[j]), df_e)], ncoef),
                     !.R2 = FSub(FInt(1), FDiv(ArrayVar(e_num, b_den), ArrayVar(self.y, 1)))]

\* (self.nobs - 1) / (self.nobs - self.ncoef) divides two ints: a zero
\* divisor raises ZeroDivisionError
ols_R2adj_raises(self) == self.nobs - self.ncoef = 0

\* the instance after lines 154 to 158 of estimate()
ols_estimate_from_R2adj(self) ==
    LET one_R2 == FSub(FInt(1), self.R2)
        F == FDiv(FDiv(self.R2, FInt(self.df_r)), FDiv(one_R2, FInt(self.df_e)))
    IN  [self EXCEPT !.assigned = EstimateFields,
                     !.R2adj = FSub(FInt(1),
                                    FMul(one_R2, Fin(self.nobs - 1, self.nobs - self.ncoef))),
                     !.F = F,
                     !.Fpv = stats_f_sf(F, self.df_r, self.df_e)]

\* the instance after an estimate() that did not raise
ols_estimate(self) == ols_estimate_from_R2adj(ols_estimate_to_R2(self))

---------------------------------------------------------------------------
(* wrappers/ols.py: the methods of a constructed ols.  A call gives what  *)
(* it returned (ret) or raised (err) and the instance it leaves (self).   *)

Call(ret, err, self) == [ret |-> ret, err |-> err, self |-> self]

RECURSIVE FDot(_, _, _)
\* dot(u, v) of two arrays of n floats
FDot(u, v, n) == IF n = 0 THEN FInt(0) ELSE FSub(FDot(u, v, n - 1), FMul([u[n] EXCEPT !.n = -u[n].n], v[n]))

\* an array of floats as the argument of a function of scipy.stats
ArrayPar(e) ==
    Vec([i \in 1 .. (2 * Len(e)) |->
            IF i % 2 = 1 THEN e[(i + 1) \div 2].n ELSE e[i \div 2].d],
        2 * Len(e))

\* stats.normaltest (skewtest) raises ValueError on fewer observations
NormaltestMinObs == 8

\* ols_dw taking the differences in place: self.e = diff(self.e, 1)
ols_dw_in_place(self) ==
    LET n == Len(self.e)
        de == Vec([i \in 1 .. (n - 1) |-> FSub(self.e[i + 1], self.e[i])], n - 1)
    IN  Call(<<FDiv(FDot(de, de, n - 1), FDot(self.e, self.e, n))>>, NoErr,
             [self EXCEPT !.e = de])

\* dw(): dot(de, de) / dot(self.e, self.e) for de = diff(self.e, 1)
ols_dw(self) ==
    LET n == Len(self.e)
        de == Vec([i \in 1 .. (n - 1) |-> FSub(self.e[i + 1], self.e[i])], n - 1)
    IN  Call(<<FDiv(FDot(de, de, n - 1), FDot(self.e, self.e, n))>>, NoErr, self)

\* ols_omni without the except clause
ols_omni_uncaught(self) ==
    IF Len(self.e) < NormaltestMinObs
    THEN Call(<<>>, Err("ValueError", "skewtest is not valid with less than 8 samples"), self)
    ELSE Call(<<Float("normaltest.statistic", 0, 1, ArrayPar(self.e)),
                Float("normaltest.pvalue", 0, 1, ArrayPar(self.e))>>, NoErr, self)

\* omni(): stats.normaltest(self.e), and (nan, nan) when it raises ValueError
ols_omni(self) ==
    IF Len(self.e) < NormaltestMinObs
    THEN Call(<<FNaN, FNaN>>, NoErr, self)
    ELSE Call(<<Float("normaltest.statistic", 0, 1, ArrayPar(self.e)),
                Float("normaltest.pvalue", 0, 1, ArrayPar(self.e))>>, NoErr, self)

\* JB(): JB, JBpv, skew, kurtosis of self.e, with self.nobs
ols_JB(self) ==
    LET par == <<self.nobs>> \o ArrayPar(self.e)
    IN  Call(<<Float("JB", 0, 1, par), Float("JBpv", 0, 1, par),
               Float("stats.skew", 0, 1, ArrayPar(self.e)),
               Float("3 + stats.kurtosis", 0, 1, ArrayPar(self.e))>>, NoErr, self)

\* ols_ll halving the stored count: self.nobs /= 2
ols_ll_halves_nobs(self) ==
    LET v == FDiv(FDot(self.e, self.e, Len(self.e)), FInt(self.nobs))
        par == <<self.nobs, self.ncoef>>
    IN  Call(IF FIsNaN(v) THEN <<FNaN, FNaN, FNaN>>
             ELSE IF FIsZero(v) THEN <<FInf(1), FInf(-1), FInf(-1)>>
             ELSE <<Float("ll", v.n, v.d, par), Float("aic", v.n, v.d, par),
                    Float("bic", v.n, v.d, par)>>,
             NoErr, [self EXCEPT !.nobs = self.nobs \div 2])

\* ll(): ll, aic, bic from log(dot(self.e, self.e) / self.nobs), self.nobs
\* and self.ncoef; log(0) is -inf
ols_ll(self) ==
    LET v == FDiv(FDot(self.e, self.e, Len(self.e)), FInt(self.nobs))
        par == <<self.nobs, self.ncoef>>
    IN  Call(IF FIsNaN(v) THEN <<FNaN, FNaN, FNaN>>
             ELSE IF FIsZero(v) THEN <<FInf(1), FInf(-1), FInf(-1)>>
             ELSE <<Float("ll", v.n, v.d, par), Float("aic", v.n, v.d, par),
                    Float("bic", v.n, v.d, par)>>,
             NoErr, self)

\* summary(): calls ll(), JB() and omni(), prints one line per name, reading
\* self.b[i], self.se[i], self.t[i], self.p[i], and calls dw()
ols_summary(self) ==
    LET s1 == ols_ll(self).self
        s2 == ols_JB(s1).self
        s3 == ols_omni(s2).self
    IN  IF Len(s3.x_varnm) > Len(s3.b)
        THEN Call(<<>>, Err("IndexError", "index out of bounds"), s3)
        ELSE Call(<<>>, NoErr, ols_dw(s3).self)

\* to_file(): calls ll(), JB() and omni(), and reads self.ncoefs, an
\* attribute that is never assigned
ols_to_file(self, filename) ==
    LET s1 == ols_ll(self).self
        s2 == ols_JB(s1).self
        s3 == ols_omni(s2).self
    IN  Call(<<>>, Err("AttributeError", "'ols' object has no attribute 'ncoefs'"), s3)

---------------------------------------------------------------------------
(* The arguments a caller may pass to ols *)

\* the rows of k observations: all of them for one predictor, and for
\* several the rows with at most one observation that is not the first of
\* ObsVals
Rows(k) ==
    {r \in [1 .. k -> ObsVals] : Cardinality({j \in 1 .. k : r[j] # 0}) <= 1}

\* the n-by-k matrices of such rows
Matrices(n, k) == [1 .. n -> Rows(k)]

XArgs ==
    UNION {{Array(2, m) : m \in Matrices(n, k)} : n \in 1 .. MaxObs, k \in 1 .. MaxCols}
    \cup UNION {{Array(1, m) : m \in Matrices(n, 1)} : n \in 1 .. MaxObs}

\* the responses to x: every vector over ObsVals for one predictor, and
\* for several the vectors that step once from 1 to 0
YArgs(x) ==
    IF Len(x.rows[1]) = 1
    THEN [1 .. Len(x.rows) -> ObsVals]
    ELSE {[i \in 1 .. Len(x.rows) |-> IF i <= j THEN 1 ELSE 0] : j \in 0 .. Len(x.rows)}

NamePool == <<"a", "b", "c", "d", "e", "f">>

\* None, the empty list, and lists of 1 to MaxCols + 1 names
NameArgs == {NoNames} \cup {Names(SubSeq(NamePool, 1, l)) : l \in 0 .. (MaxCols + 1)}

---------------------------------------------------------------------------
(* Actions of the regression *)

\* the arguments of a construction
OArgs(x, y, x_varnm) == [x |-> x, y |-> y, x_varnm |-> x_varnm]
NoArgs == OArgs(Array(0, <<>>), <<>>, NoNames)

\* the outcome of a method call: what it returned, or the exception
\* again: the method had returned on this instance before
CallOutcome(method, ret, err, again) ==
    [method |-> method, ret |-> ret, err |-> err, again |-> again]
NoCall == CallOutcome("", <<>>, NoErr, FALSE)

DiagnosticMethods == {"dw", "omni", "JB", "ll"}
NotSeen == <<FUnset>>
NoneSeen == [m \in DiagnosticMethods |-> NotSeen]

\* ols(x, y, x_varnm): __init__ up to its call of estimate()
O_init(x, y, x_varnm) ==
    /\ o_pc = "idle"
    /\ reg' = ols_init(x, y, x_varnm)
    /\ o_pc' = "init"
    /\ o_err' = NoErr
    /\ o_raises' = 0
    /\ o_args' = OArgs(x, y, x_varnm)
    /\ o_out' = NoCall
    /\ o_seen' = NoneSeen
    /\ UNCHANGED tvars

O_new ==
    /\ o_pc = "idle"
    /\ \E x \in XArgs, nm \in NameArgs :
          \E y \in YArgs(x) : O_init(x, y, nm)

\* estimate(), called by __init__
O_estimate ==
    /\ o_pc = "init"
    /\ IF ols_inv_raises(Gram(reg.x))
       THEN /\ o_pc' = "raised"
            /\ o_err' = Err("LinAlgError", "Your matrix of independent observations is singular!")
            /\ o_raises' = o_raises + 1
            /\ reg' = reg
       ELSE IF ols_R2adj_raises(ols_estimate_counts(reg))
       THEN /\ o_pc' = "raised"
            /\ o_err' = Err("ZeroDivisionError", "division by zero")
            /\ reg' = ols_estimate_to_R2(reg)
            /\ UNCHANGED o_raises
       ELSE /\ o_pc' = "done"
            /\ reg' = ols_estimate(reg)
            /\ UNCHANGED <<o_err, o_raises>>
    /\ UNCHANGED <<o_args, o_out, o_seen, tvars>>

\* the caller drops the instance (or the exception) and may construct again
O_discard ==
    /\ o_pc \in {"done", "raised"}
    /\ reg' = NoReg
    /\ o_pc' = "idle"
    /\ o_err' = NoErr
    /\ o_raises' = 0
    /\ o_args' = NoArgs
    /\ o_out' = NoCall
    /\ o_seen' = NoneSeen
    /\ UNCHANGED tvars

\* a method call on the constructed instance ends with the outcome c
O_method(m, c) ==
    /\ reg' = c.self
    /\ o_out' = CallOutcome(m, c.ret, c.err, m \in DiagnosticMethods /\ o_seen[m] # NotSeen)
    /\ o_seen' =
          IF m \in DiagnosticMethods /\ c.err = NoErr /\ o_seen[m] = NotSeen
          THEN [o_seen EXCEPT ![m] = c.ret]
          ELSE o_seen
    /\ UNCHANGED <<o_pc, o_err, o_raises, o_args, tvars>>

O_dw == o_pc = "done" /\ O_method("dw", ols_dw(reg))
O_omni == o_pc = "done" /\ O_method("omni", ols_omni(reg))
O_JB == o_pc = "done" /\ O_method("JB", ols_JB(reg))
O_ll == o_pc = "done" /\ O_method("ll", ols_ll(reg))
O_summary == o_pc = "done" /\ O_method("summary", ols_summary(reg))

O_to_file ==
    /\ o_pc = "done"
    /\ \E filename \in {PyNone, PyStr("results.json")} : O_method("to_file", ols_to_file(reg, filename))

\* estimate() called again by the owner of the instance
O_estimate_again ==
    /\ o_pc = "done"
    /\ O_method("estimate",
                IF ols_inv_raises(Gram(reg.x))
                THEN Call(<<>>, Err("LinAlgError",
                                    "Your matrix of independent observations is singular!"),
                          reg)
                ELSE IF ols_R2adj_raises(ols_estimate_counts(reg))
                THEN Call(<<>>, Err("ZeroDivisionError", "division by zero"),
                          ols_estimate_to_R2(reg))
                ELSE Call(<<>>, NoErr, ols_estimate(reg)))

---------------------------------------------------------------------------
(* Specifications *)

NoFixture == [cls |-> "", samples |-> NoSamples, test_type |-> Unset, equal_var |-> FALSE]

NoPrev ==
    [set |-> FALSE, cls |-> "", test_type |-> Unset, equal_var |-> FALSE,
     alt_hyp |-> Unset, alpha |-> Unset, t_stat |-> Unset, p_val |-> Unset,
     raw |-> NotCalled, out |-> NoReport]

OInit ==
    /\ reg = NoReg
    /\ o_pc = "idle"
    /\ o_err = NoErr
    /\ o_raises = 0
    /\ o_args = NoArgs
    /\ o_out = NoCall
    /\ o_seen = NoneSeen

TInit ==
    /\ tt = NoObject
    /\ t_pc = "idle"
    /\ t_todo = <<>>
    /\ t_err = NoErr
    /\ t_out = NoReport
    /\ t_built = NoBuilt
    /\ fixture = NoFixture
    /\ prev = NoPrev

\* a caller constructs a t-test with any arguments
T1_new ==
    /\ t_pc = "idle"
    /\ \E s \in Samples1, h \in AltHyps, al \in Alphas : T1_init(s, h, al)

T2_new ==
    /\ t_pc = "idle"
    /\ \E s \in Samples2, ty \in TestTypes, ev \in BOOLEAN, h \in AltHyps, al \in Alphas :
          T2_init(s, ty, ev, h, al)

Init == TInit /\ OInit

\* the t-tests, constructed with any arguments and then reported
Next ==
    \/ T1_new
    \/ T2_new
    \/ T1_check_params
    \/ T1_test
    \/ T2_check_params
    \/ T2_test
    \/ T1_summary
    \/ T1_to_file
    \/ T2_summary
    \/ T2_to_file
    \/ T_discard

Spec == Init /\ [][Next]_vars

\* tests/test_ttest.py, test_same_results_changing_alpha and
\* test_same_t_stat_changing_alt_hyp: loops that construct t-tests on the
\* same samples, with the same test type and equal_var, for several alt_hyp
\* and alpha, and compare the stored t_stat and p_val
Fixture(cls, samples, test_type, equal_var) ==
    [cls |-> cls, samples |-> samples, test_type |-> test_type, equal_var |-> equal_var]

Fixtures ==
    {Fixture("ttest_1samp", sm, Unset, FALSE) : sm \in Samples1}
    \cup {Fixture("ttest_2samp", sm, ty, ev) :
            sm \in Samples2, ty \in {PyStr("ind"), PyStr("rel")}, ev \in BOOLEAN}

LoopAltHyps == {PyStr("unequal"), PyStr("less"), PyStr("greater")}

\* alpha omitted, random() in (0, 1), and the ints 0 and 1
LoopAlphas == {PyNone, PyInt(0), PyInt(1)} \cup {PyFloat(u) : u \in 1 .. (One - 1)}

InitLoop ==
    /\ OInit
    /\ tt = NoObject
    /\ t_pc = "idle"
    /\ t_todo = <<>>
    /\ t_err = NoErr
    /\ t_out = NoReport
    /\ t_built = NoBuilt
    /\ fixture \in Fixtures
    /\ prev = NoPrev

L1_new ==
    /\ t_pc = "idle" /\ fixture.cls = "ttest_1samp"
    /\ \E h \in LoopAltHyps, al \in LoopAlphas : T1_init(fixture.samples, h, al)

L2_new ==
    /\ t_pc = "idle" /\ fixture.cls = "ttest_2samp"
    /\ \E h \in LoopAltHyps, al \in LoopAlphas :
          T2_init(fixture.samples, fixture.test_type, fixture.equal_var, h, al)

\* what scipy returned to test() of the instance
RawResult(self) ==
    IF self.cls = "ttest_1samp" THEN stats_ttest_1samp(self.samples)
    ELSE ttest_2samp_call(self)

\* the loop keeps the results of this construction and goes on
L_keep ==
    /\ t_pc = "done"
    /\ prev' = [set |-> TRUE, cls |-> tt.cls, test_type |-> tt.test_type,
                equal_var |-> tt.equal_var, alt_hyp |-> tt.alt_hyp, alpha |-> tt.alpha,
                t_stat |-> tt.t_stat, p_val |-> tt.p_val,
                raw |-> RawResult(tt), out |-> t_out]
    /\ tt' = NoObject
    /\ t_pc' = "idle"
    /\ t_todo' = <<>>
    /\ t_err' = NoErr
    /\ t_out' = NoReport
    /\ t_built' = NoBuilt
    /\ UNCHANGED <<fixture, ovars>>

NextLoop ==
    \/ L1_new
    \/ L2_new
    \/ T1_check_params
    \/ T1_test
    \/ T2_check_params
    \/ T2_test
    \/ L_keep
    \/ T_discard

SpecLoop == InitLoop /\ [][NextLoop]_vars

\* a one-sample and a two-sample test side by side: samples on which
\* ttest_1samp and the pooled ttest_ind return the same pair, Welch the same
\* t-statistic and ttest_rel a result of its own; each construction chooses
\* its class, test_type, equal_var, alt_hyp and alpha
PairSamples ==
    {d \in {[one |-> r, ind |-> r, welch |-> w, rel |-> q] :
               r \in LibResults, w \in LibResults, q \in LibResults} :
        d.welch.t = d.ind.t /\ d.rel.t = d.ind.t}

\* alpha omitted, 0.5 and 1
PairAlphas == {PyNone, PyFloat(PRes), PyInt(1)}

InitPair ==
    /\ OInit
    /\ tt = NoObject
    /\ t_pc = "idle"
    /\ t_todo = <<>>
    /\ t_err = NoErr
    /\ t_out = NoReport
    /\ t_built = NoBuilt
    /\ fixture \in {Fixture("", sm, Unset, FALSE) : sm \in PairSamples}
    /\ prev = NoPrev

P1_new ==
    /\ t_pc = "idle"
    /\ \E h \in LoopAltHyps, al \in PairAlphas : T1_init(fixture.samples, h, al)

P2_new ==
    /\ t_pc = "idle"
    /\ \E ty \in {PyStr("ind"), PyStr("rel")}, ev \in BOOLEAN,
          h \in LoopAltHyps, al \in PairAlphas :
          T2_init(fixture.samples, ty, ev, h, al)

NextPair ==
    \/ P1_new
    \/ P2_new
    \/ T1_check_params
    \/ T1_test
    \/ T2_check_params
    \/ T2_test
    \/ T1_summary
    \/ T1_to_file
    \/ T2_summary
    \/ T2_to_file
    \/ L_keep
    \/ T_discard

SpecPair == InitPair /\ [][NextPair]_vars

\* the tests of SpecPair, each called again after its construction
NextRetest ==
    \/ P1_new
    \/ P2_new
    \/ T1_check_params
    \/ T1_test
    \/ T2_check_params
    \/ T2_test
    \/ T1_test_again
    \/ T2_test_again
    \/ T1_summary
    \/ T2_to_file
    \/ T_discard

SpecRetest == InitPair /\ [][NextRetest]_vars

\* regressions on one predictor with the default names: every short
\* design, and designs of one observation less than stats.normaltest needs
\* and of as many, x alternating between 1 and 0 and y stepping from 1 to 0
DiagArgs ==
    UNION {{OArgs(Array(1, m), y, NoNames) : m \in Matrices(n, 1), y \in [1 .. n -> ObsVals]} :
              n \in 1 .. MaxObs}
    \cup UNION {{OArgs(Array(1, [i \in 1 .. n |-> <<i % 2>>]),
                        [i \in 1 .. n |-> IF i <= j THEN 1 ELSE 0], NoNames) : j \in 0 .. n} :
                  n \in {NormaltestMinObs - 1, NormaltestMinObs}}

D_new ==
    /\ o_pc = "idle"
    /\ \E a \in DiagArgs : O_init(a.x, a.y, a.x_varnm)

\* the regression, constructed and then queried
NextDiag ==
    \/ D_new
    \/ O_estimate
    \/ O_dw
    \/ O_omni
    \/ O_JB
    \/ O_ll
    \/ O_summary
    \/ O_to_file
    \/ O_estimate_again
    \/ O_discard

SpecDiag == Init /\ [][NextDiag]_vars

\* the regression, constructed with any arguments
NextOLS ==
    \/ O_new
    \/ O_estimate
    \/ O_discard

SpecOLS == Init /\ [][NextOLS]_vars

---------------------------------------------------------------------------
(* Properties *)

Constructed == t_pc = "done"
Failed == t_pc = "raised"
Finished == Constructed \/ Failed

AltHypAllowed(v) == v \in {PyStr("unequal"), PyStr("greater"), PyStr("less")}
TestTypeAllowed(v) == v \in {PyStr("ind"), PyStr("rel")}
OptionsAllowed ==
    /\ AltHypAllowed(tt.alt_hyp)
    /\ tt.cls = "ttest_2samp" => TestTypeAllowed(tt.test_type)
\* the samples are such that scipy computes a result on them
SamplesAccepted ==
    ~(tt.cls = "ttest_2samp" /\ tt.test_type = PyStr("rel") /\ tt.samples.rel.raises)

AlphaSupplied(v) == v # PyNone
AlphaNumeric(v) == v.ty \in NumericTypes
AlphaOutside(v) == AlphaNumeric(v) /\ (PyLt(v, Zero) \/ PyGt(v, PyInt(1)))
AlphaInUnitInterval(v) == AlphaNumeric(v) /\ PyGe(v, Zero) /\ PyGe(PyInt(1), v)

\* C1: an ols whose augmented design has a singular Gram matrix is never
\* constructed: estimate() raises LinAlgError, once, and none of the result
\* fields has been assigned when it is raised.
ResultFields ==
    {"b", "nobs", "ncoef", "df_e", "df_r", "e", "se", "t", "p", "R2", "R2adj", "F", "Fpv"}

C2_InvalidOptionRaisesValueError ==
    (Finished /\ ~OptionsAllowed) => (Failed /\ t_err.type = "ValueError")

\* C3: a supplied alpha that is not of a numeric type, or is a number below
\* 0 or above 1, ends the construction with ValueError (the other
\* parameters being valid).
C3_BadAlphaRaisesValueError ==
    (/\ Finished
     /\ OptionsAllowed
     /\ AlphaSupplied(tt.alpha)
     /\ (~AlphaNumeric(tt.alpha) \/ AlphaOutside(tt.alpha)))
    => (Failed /\ t_err.type = "ValueError")

\* C4: with the other parameters valid, the construction succeeds and
\* stores t_stat and p_val for every alpha that is a real number in [0, 1],
\* whatever its numeric type, and for alpha = None.
C4_ValidAlphaConstructs ==
    (/\ Finished
     /\ OptionsAllowed
     /\ SamplesAccepted
     /\ (tt.alpha = PyNone \/ AlphaInUnitInterval(tt.alpha)))
    => (Constructed /\ tt.t_stat # Unset /\ tt.p_val # Unset)

\* C5: an ols that got past the naming of its variables, and so every
\* constructed ols, has one name per coefficient, the first being 'const':
\* a supplied list of another length has ended the construction before.
C5_OneNamePerCoefficient ==
    o_pc \in {"init", "done"} =>
        /\ Len(reg.x_varnm) = NCols(reg.x)
        /\ reg.x_varnm[1] = "const"

\* C6: check_params() has returned before test() starts: a construction
\* that failed has stored no t_stat and no p_val, and a stored t_stat or
\* p_val means that check_params() is behind and accepted the parameters.
C6_ValidationBeforeTest ==
    /\ Failed => (tt.t_stat = Unset /\ tt.p_val = Unset)
    /\ (tt.t_stat # Unset \/ tt.p_val # Unset) =>
          /\ \A i \in 1 .. Len(t_todo) : t_todo[i] # "check_params"
          /\ OptionsAllowed

C6_Witness ==
    /\ Failed
    /\ t_err = Err("ValueError", "Invalid alpha data value.")
    /\ OptionsAllowed

\* C7: summary() and to_file() report the null hypothesis as rejected if
\* and only if alpha is supplied, alpha > 0 and p_val < alpha.
C7_RejectIffBelowAlpha ==
    t_out.kind # "" =>
        (t_out.reject_null <=>
            /\ AlphaSupplied(tt.alpha)
            /\ AlphaNumeric(tt.alpha)
            /\ PyGt(tt.alpha, Zero)
            /\ PyLt(tt.p_val, tt.alpha))

\* C8: the alternative hypothesis is reported as accepted if and only if
\* the null hypothesis is reported as rejected and the direction check
\* holds: 'unequal' always, 'less' with t_stat < 0, 'greater' with
\* t_stat > 0.
DirectionHolds ==
    \/ tt.alt_hyp = PyStr("unequal")
    \/ (tt.alt_hyp = PyStr("less") /\ PyLt(tt.t_stat, Zero))
    \/ (tt.alt_hyp = PyStr("greater") /\ PyGt(tt.t_stat, Zero))

C8_AcceptIffRejectAndDirection ==
    t_out.kind # "" => (t_out.accept_alt <=> (t_out.reject_null /\ DirectionHolds))

\* the null hypothesis rejected and the alternative 'less' not accepted,
\* t_stat being positive
C8_Witness ==
    /\ t_out.kind = "to_file"
    /\ tt.cls = "ttest_1samp"
    /\ t_out.reject_null
    /\ ~t_out.accept_alt
    /\ tt.alt_hyp = PyStr("less")
    /\ PyGt(tt.t_stat, Zero)

\* C9: on the same samples the stored t_stat is the same for the three
\* alternative hypotheses; the stored p_val is scipy's two-sided p-value
\* for 'unequal' and exactly half of it for 'greater' and 'less', whatever
\* the sign of t_stat.
FixtureResult ==
    IF fixture.cls = "ttest_1samp" THEN stats_ttest_1samp(fixture.samples)
    ELSE IF fixture.test_type = PyStr("ind")
    THEN stats_ttest_ind(fixture.samples, fixture.equal_var)
    ELSE stats_ttest_rel(fixture.samples)

IsHalfOf(h, v) == (IsNaN(h) /\ IsNaN(v)) \/ (~IsNaN(h) /\ ~IsNaN(v) /\ 2 * h.n = v.n)

C9_HalvedForDirectional ==
    Constructed =>
        /\ tt.t_stat = FixtureResult.t
        /\ tt.alt_hyp = PyStr("unequal") => tt.p_val = FixtureResult.p
        /\ tt.alt_hyp # PyStr("unequal") => IsHalfOf(tt.p_val, FixtureResult.p)
        /\ prev.set => prev.t_stat = tt.t_stat
        /\ (prev.set /\ prev.alt_hyp = PyStr("unequal") /\ tt.alt_hyp # PyStr("unequal"))
              => IsHalfOf(tt.p_val, prev.p_val)

\* 'less' after 'unequal' on samples whose t_stat is positive
C9_Witness ==
    /\ Constructed
    /\ prev.set
    /\ prev.alt_hyp = PyStr("unequal")
    /\ tt.alt_hyp = PyStr("less")
    /\ PyGt(tt.t_stat, Zero)
    /\ PyGt(tt.p_val, Zero)

\* C10: two constructions on the same samples with the same alt_hyp (and
\* test_type and equal_var) store the same t_stat and p_val, whatever
\* their alpha.
C10_IndependentOfAlpha ==
    (/\ Constructed
     /\ prev.set
     /\ prev.cls = tt.cls
     /\ prev.test_type = tt.test_type
     /\ prev.equal_var = tt.equal_var
     /\ prev.alt_hyp = tt.alt_hyp)
    => (prev.t_stat = tt.t_stat /\ prev.p_val = tt.p_val)

\* a directional two-sample test with alpha after the same without alpha
C10_Witness ==
    /\ Constructed
    /\ prev.set
    /\ tt.cls = "ttest_2samp"
    /\ prev.alt_hyp = tt.alt_hyp
    /\ tt.alt_hyp = PyStr("greater")
    /\ prev.alpha = PyNone
    /\ tt.alpha = PyFloat(1)
    /\ PyGt(tt.p_val, Zero)

\* C11: an ols constructed without names (x_varnm omitted, or a list of no
\* names) is named 'const', 'x' when x is one-dimensional or has one
\* column, and 'const', 'x1', ..., 'xk' when x has k > 1 columns; one
\* constructed with names is named 'const' followed by these names in
\* their order.
NamesSupplied == o_args.x_varnm.given /\ o_args.x_varnm.names # <<>>
PredictorCount == Len(o_args.x.rows[1])

C11_VariableNames ==
    o_pc \in {"init", "done", "raised"} =>
        IF NamesSupplied
        THEN /\ Len(reg.x_varnm) = Len(o_args.x_varnm.names) + 1
             /\ reg.x_varnm[1] = "const"
             /\ \A i \in 1 .. Len(o_args.x_varnm.names) :
                   reg.x_varnm[i + 1] = o_args.x_varnm.names[i]
        ELSE IF o_args.x.ndim = 1 \/ PredictorCount = 1
        THEN reg.x_varnm = <<"const", "x">>
        ELSE /\ Len(reg.x_varnm) = PredictorCount + 1
             /\ reg.x_varnm[1] = "const"
             /\ \A i \in 1 .. PredictorCount : reg.x_varnm[i + 1] = "x" \o ToString(i)

\* a constructed regression on two predictors with the default names
C11_Witness ==
    /\ o_pc = "done"
    /\ ~o_args.x_varnm.given
    /\ PredictorCount = 2
    /\ reg.x_varnm = <<"const", "x1", "x2">>

\* C12: omni() on a constructed ols never raises: on fewer than 8 residuals
\* it returns (nan, nan), on 8 or more the statistic and the p-value of
\* stats.normaltest on the residuals.
C12_OmniNeverRaises ==
    o_out.method = "omni" =>
        /\ o_out.err = NoErr
        /\ Len(o_out.ret) = 2
        /\ Len(o_args.y) < 8 => (FIsNaN(o_out.ret[1]) /\ FIsNaN(o_out.ret[2]))
        /\ Len(o_args.y) >= 8 =>
              /\ o_out.ret[1].k = "normaltest.statistic"
              /\ o_out.ret[2].k = "normaltest.pvalue"
              /\ o_out.ret[1].par = ArrayPar(reg.e)
              /\ o_out.ret[2].par = ArrayPar(reg.e)

\* eight residuals, not all of them zero
C12_Witness ==
    /\ o_out.method = "omni"
    /\ Len(reg.e) = 8
    /\ \E i \in 1 .. 8 : ~FIsZero(reg.e[i])
    /\ o_out.ret[1].k = "normaltest.statistic"

\* C13: on one constructed ols every call of dw(), omni(), JB() and ll()
\* returns what the first call of that method returned, whatever was called
\* in between.
C13_DiagnosticsRepeatable ==
    o_out.method \in DiagnosticMethods =>
        /\ o_out.err = NoErr
        /\ o_out.ret = o_seen[o_out.method]

\* dw() called again after each of the four methods has returned, the
\* statistic being a positive number
C13_Witness ==
    /\ o_out.method = "dw"
    /\ o_out.again
    /\ \A m \in DiagnosticMethods : o_seen[m] # NotSeen
    /\ o_out.ret[1].k = "fin"
    /\ o_out.ret[1].n > 0

\* C14: when the construction returns, every result field is assigned; and
\* no call of dw, omni, JB, ll, summary, to_file or estimate on the
\* constructed instance changes the value of any of them.
ResultOf(r) ==
    <<r.b, r.e, r.se, r.t, r.p, r.R2, r.R2adj, r.F, r.Fpv, r.df_e, r.df_r, r.nobs, r.ncoef>>

ResultAssigned ==
    /\ ResultFields \subseteq reg.assigned
    /\ Len(reg.b) = reg.ncoef /\ Len(reg.se) = reg.ncoef
    /\ Len(reg.t) = reg.ncoef /\ Len(reg.p) = reg.ncoef
    /\ Len(reg.e) = reg.nobs
    /\ FUnset \notin {reg.R2, reg.R2adj, reg.F, reg.Fpv}

C14_ResultsEagerAndFrozen ==
    /\ [](o_pc = "done" => ResultAssigned)
    /\ [][(o_pc = "done" /\ o_pc' = "done") => ResultOf(reg') = ResultOf(reg)]_vars

\* estimate() called again on a regression that fits in part (0 < R2 < 1),
\* after ll() and dw()
C14_Witness ==
    /\ o_pc = "done"
    /\ o_out.method = "estimate"
    /\ o_seen["ll"] # NotSeen
    /\ o_seen["dw"] # NotSeen
    /\ reg.R2.k = "fin" /\ reg.R2.n > 0 /\ reg.R2.n < reg.R2.d

\* C15: on every constructed ols, nobs is the length of the response,
\* ncoef the number of predictor columns plus one, df_e = nobs - ncoef and
\* df_r = ncoef - 1, so that df_e + df_r = nobs - 1.
C15_DegreesOfFreedom ==
    o_pc = "done" =>
        /\ reg.nobs = Len(o_args.y)
        /\ reg.ncoef = PredictorCount + 1
        /\ reg.df_e = reg.nobs - reg.ncoef
        /\ reg.df_r = reg.ncoef - 1
        /\ reg.df_e + reg.df_r = reg.nobs - 1

\* four observations of two predictors
C15_Witness ==
    /\ o_pc = "done"
    /\ PredictorCount = 2
    /\ reg.nobs = 4
    /\ reg.df_e = 1
    /\ reg.df_r = 2

\* C16: a construction on no more observations than coefficients fails for
\* no other reason than a singular design: it runs to its end and stores
\* sse, se, t, p, R2adj, F and Fpv as infinite or nan values.
NonFinite(v) == v.k \in {"nan", "inf"}

C16_NoErrorOnNonPositiveDf ==
    (/\ o_pc \in {"done", "raised"}
     /\ Len(o_args.y) <= PredictorCount + 1
     /\ o_err.type # "LinAlgError")
    => /\ o_pc = "done"
       /\ NonFinite(reg.sse) /\ NonFinite(reg.R2adj)
       /\ NonFinite(reg.F) /\ NonFinite(reg.Fpv)
       /\ \A j \in 1 .. reg.ncoef :
             NonFinite(reg.se[j]) /\ NonFinite(reg.t[j]) /\ NonFinite(reg.p[j])

\* C18: to_file() on a constructed ols completes without an error, with a
\* filename and without one.
C18_ToFileCompletes ==
    o_out.method = "to_file" => o_out.err = NoErr

\* C19 as stated: on one predictor with at least two distinct values and a
\* response y = m * x + c, the construction gives b = [c, m], p-values of
\* zero and infinite t-statistics (the residuals are exactly zero here).
CoefVals == -1 .. 1

OnLine(m, c) ==
    /\ PredictorCount = 1
    /\ \E i, j \in 1 .. Len(o_args.y) : o_args.x.rows[i] # o_args.x.rows[j]
    /\ \A i \in 1 .. Len(o_args.y) : o_args.y[i] = m * o_args.x.rows[i][1] + c

Recovered(m, c) ==
    /\ o_pc = "done"
    /\ reg.b = <<FInt(c), FInt(m)>>
    /\ \A j \in 1 .. 2 : reg.p[j] = FInt(0) /\ FIsInf(reg.t[j])

C17_SameRuleInBothClasses ==
    (/\ Constructed
     /\ prev.set
     /\ prev.cls # tt.cls
     /\ prev.alt_hyp = tt.alt_hyp
     /\ prev.alpha = tt.alpha
     /\ prev.raw = RawResult(tt))
    => /\ prev.t_stat = tt.t_stat
       /\ prev.p_val = tt.p_val
       /\ (prev.out.kind # "" /\ t_out.kind # "") =>
             /\ prev.out.reject_null = t_out.reject_null
             /\ prev.out.accept_alt = t_out.accept_alt

\* 'less' with alpha 1 on a positive t: both classes halve the p-value,
\* reject the null hypothesis and do not accept the alternative
C17_Witness ==
    /\ Constructed
    /\ prev.set
    /\ prev.cls = "ttest_1samp"
    /\ tt.cls = "ttest_2samp"
    /\ prev.raw = RawResult(tt)
    /\ prev.alt_hyp = PyStr("less") /\ tt.alt_hyp = PyStr("less")
    /\ prev.alpha = PyInt(1) /\ tt.alpha = PyInt(1)
    /\ PyGt(tt.t_stat, Zero)
    /\ PyGt(tt.p_val, Zero)
    /\ prev.out.kind = "to_file" /\ t_out.kind = "to_file"
    /\ t_out.reject_null /\ ~t_out.accept_alt

\* C20: with test_type 'ind' the stored results are those of the pooled
\* test for equal_var = True and of Welch's test for equal_var = False;
\* with test_type 'rel' two constructions on the same samples that differ
\* only in equal_var store the same t_stat and p_val.
C20_EqualVarOnlyForInd ==
    (Constructed /\ tt.cls = "ttest_2samp") =>
        /\ tt.test_type = PyStr("ind") =>
              LET r == IF tt.equal_var THEN fixture.samples.ind ELSE fixture.samples.welch
              IN  /\ tt.t_stat = r.t
                  /\ tt.alt_hyp = PyStr("unequal") => tt.p_val = r.p
                  /\ tt.alt_hyp # PyStr("unequal") => IsHalfOf(tt.p_val, r.p)
        /\ (/\ prev.set
             /\ prev.cls = "ttest_2samp"
             /\ prev.test_type = PyStr("rel") /\ tt.test_type = PyStr("rel")
             /\ prev.alt_hyp = tt.alt_hyp
             /\ prev.alpha = tt.alpha
             /\ prev.equal_var # tt.equal_var)
            => (prev.t_stat = tt.t_stat /\ prev.p_val = tt.p_val)

\* two related-samples tests that differ in equal_var, on samples on which
\* the pooled, Welch's and the related-samples test give three p-values
C20_Witness ==
    /\ Constructed
    /\ prev.set
    /\ prev.cls = "ttest_2samp" /\ tt.cls = "ttest_2samp"
    /\ prev.test_type = PyStr("rel") /\ tt.test_type = PyStr("rel")
    /\ prev.alt_hyp = tt.alt_hyp /\ prev.alpha = tt.alpha
    /\ prev.equal_var /\ ~tt.equal_var
    /\ fixture.samples.ind.p # fixture.samples.welch.p
    /\ fixture.samples.rel.p # fixture.samples.welch.p

\* C21: however many times test() is called again on a constructed
\* ttest_1samp or ttest_2samp, t_stat and p_val are the values __init__
\* stored: the p-value scipy returns, halved once for a one-sided alt_hyp.
C21_TestAgainKeepsResults ==
    (Constructed /\ t_built.calls > 0) =>
        /\ tt.t_stat = t_built.t_stat
        /\ tt.p_val = t_built.p_val
        /\ tt.alt_hyp = PyStr("unequal") => tt.p_val = RawResult(tt).p
        /\ tt.alt_hyp # PyStr("unequal") => IsHalfOf(tt.p_val, RawResult(tt).p)

\* a one-sided two-sample test with a positive p-value, test() called
\* again twice and the results reported afterwards
C21_Witness ==
    /\ Constructed
    /\ tt.cls = "ttest_2samp"
    /\ tt.alt_hyp = PyStr("less")
    /\ t_built.calls >= 2
    /\ PyGt(t_built.p_val, Zero)
    /\ t_out.kind = "to_file"

\* C22: the assumptions summary() and to_file() report for a ttest_2samp
\* with test_type 'ind' include 'Equal Variances' exactly when equal_var
\* is True; with test_type 'rel' they are 'Related Samples' alone.
C22_AssumptionsFollowEqualVar ==
    (Constructed /\ tt.cls = "ttest_2samp" /\ t_out.kind \in {"summary", "to_file"}) =>
        /\ tt.test_type = PyStr("ind") =>
              ((\E i \in DOMAIN t_out.assumptions :
                    t_out.assumptions[i] = "Equal Variances") <=> tt.equal_var)
        /\ tt.test_type = PyStr("rel") => t_out.assumptions = <<"Related Samples">>

===========================================================================
